---- MODULE Spec2Model ----
(***************************************************************************)
(* Deployment records of ship-kit: the server actions of                   *)
(* src/server/actions/deployment-actions.ts over the `deployments` table,  *)
(* and the detached deployment job started by initiateDeployment.          *)
(*                                                                         *)
(* Strings that the code builds or takes apart (project names,             *)
(* descriptions) are sequences of tokens; all other strings are TLA+       *)
(* strings.  SQL NULL / JS undefined is Null.                               *)
(***************************************************************************)
EXTENDS Integers, Sequences, FiniteSets, TLC

\* ---------------------------------------------------------------- bounds
MaxSteps == 3       \* calls and job completions in one run

\* ------------------------------------------------------------ the domain
Null == "null"
Users == {"u1", "u2"}
NoUser == "anonymous"                 \* auth() yields no session.user.id
Principals == Users \cup {NoUser}

Statuses == {"deploying", "completed", "failed"}

Chars == {"a", " ", "#"}
AllowedChars == {"a"}
ProjectNameMaxLength == 1

\* raw projectName values a caller submits: empty, blank, valid, valid
\* after trimming, too long, with a disallowed character
RawNames == {<<>>, <<" ">>, <<"a">>, <<" ", "a">>, <<"a", "a">>, <<"#">>}

\* what a read meets: the query runs, or the driver throws
ReadEnvs == {"ok", "dbFail"}
\* a write is followed by revalidatePath, which can throw after the commit
WriteEnvs == {"ok", "dbFail", "revalidateFail"}

\* a call's surroundings: the session auth() resolves and what the store
\* does; without a session the store is never reached
Contexts(envs) == {<<u, e>> : u \in Users, e \in envs} \cup {<<NoUser, "ok">>}

\* values the job can throw: Error instances, and a thrown non-Error
Thrown == {[isError |-> TRUE, message |-> "Build failed"],
           [isError |-> TRUE, message |-> ""],
           [isError |-> FALSE, message |-> "Build failed"]}

\* error messages of an explicit failure result
FailureMessages == {"Build failed"}

\* locators the job can return on success
Locators == {[vercelDeploymentUrl |-> "https://a.vercel.app"],
             [githubRepoUrl |-> "https://github.com/o/a",
              githubRepoName |-> "o/a",
              vercelProjectUrl |-> "https://vercel.com/o/a",
              vercelDeploymentUrl |-> "https://a.vercel.app"]}

\* patches an owner sends to updateDeployment
Patches == {[status |-> "deploying"],
            [status |-> "completed"],
            [status |-> "failed"],
            [error |-> "Build failed"]}

VARIABLES
    store,      \* the deployments table: a set of rows
    nextId,     \* the id the next inserted row gets
    clock,      \* insert statements so far; a row's createdAt
    jobs,       \* detached deployment jobs in flight
    steps,      \* calls and job completions so far
    last        \* the call that just returned, with what it returned

vars == <<store, nextId, clock, jobs, steps, last>>

\* ------------------------------------------------------------- strings
RECURSIVE TrimStart(_)
TrimStart(s) ==
    IF Len(s) > 0 /\ Head(s) = " " THEN TrimStart(Tail(s)) ELSE s

RECURSIVE TrimEnd(_)
TrimEnd(s) ==
    IF Len(s) > 0 /\ s[Len(s)] = " " THEN TrimEnd(SubSeq(s, 1, Len(s) - 1)) ELSE s

Trim(s) == TrimEnd(TrimStart(s))

ValidateProjectName(raw) ==
    LET t == Trim(raw) IN
    IF Len(t) = 0
    THEN [isValid |-> FALSE, error |-> "Project name is required"]
    ELSE IF Len(t) > ProjectNameMaxLength
    THEN [isValid |-> FALSE, error |-> "Project name is too long"]
    ELSE IF \E i \in 1..Len(t) : t[i] \notin AllowedChars
    THEN [isValid |-> FALSE, error |-> "Project name has invalid characters"]
    ELSE [isValid |-> TRUE, error |-> Null]

\* ---------------------------------------------------------------- rows
Fields == {"id", "userId", "projectName", "description", "status", "error",
           "githubRepoUrl", "githubRepoName", "vercelProjectUrl",
           "vercelDeploymentUrl", "createdAt"}

\* a row as the insert builds it: the given values, NULL elsewhere
NewRow(id, at, values) ==
    [f \in Fields |->
        IF f = "id" THEN id
        ELSE IF f = "createdAt" THEN at
        ELSE IF f \in DOMAIN values THEN values[f]
        ELSE Null]

\* a .set() that writes the status and drops the other fields of the patch
ApplyStatusOnly(row, patch) ==
    [f \in Fields |-> IF f = "status" /\ f \in DOMAIN patch THEN patch[f] ELSE row[f]]

\* .set({...data}): only the fields present in the patch change
ApplyPatch(row, patch) ==
    [f \in Fields |-> IF f \in DOMAIN patch THEN patch[f] ELSE row[f]]

OwnedBy(row, user) == row.userId = user

\* the WHERE clause with the owner test forgotten
MatchesIdOnly(row, id, user) == row.id = id

\* WHERE id = :id AND userId = :session.user.id
MatchesIdAndOwner(row, id, user) == row.id = id /\ row.userId = user

Ids(rows) == {r.id : r \in rows}

\* ORDER BY createdAt DESC; rows of one insert statement tie, in any order
RECURSIVE Orderings(_)
Orderings(rows) ==
    IF rows = {} THEN {<<>>}
    ELSE UNION {{<<r>> \o s : s \in Orderings(rows \ {r})} :
                  r \in {x \in rows : \A y \in rows : x.createdAt >= y.createdAt}}

Range(s) == {s[i] : i \in 1..Len(s)}

Init ==
    /\ store = {}
    /\ nextId = 1
    /\ clock = 0
    /\ jobs = {}
    /\ steps = 0
    /\ last = [op |-> "none", principal |-> NoUser, arg |-> Null, env |-> "ok",
               threw |-> FALSE, result |-> Null]

Returned(op, principal, arg, env, threw, result) ==
    [op |-> op, principal |-> principal, arg |-> arg, env |-> env,
     threw |-> threw, result |-> result]

\* ------------------------------------------------------ store operations
\* a createDeployment whose transaction is never committed
CreateWithoutCommit(st, id, at, principal, data, env) ==
    [store |-> st, threw |-> principal = NoUser \/ env # "ok",
     message |-> IF principal = NoUser THEN "Unauthorized"
                 ELSE IF env # "ok" THEN "Failed to create deployment" ELSE Null,
     row |-> NewRow(id, at, [f \in DOMAIN data \cup {"userId"} |->
                               IF f = "userId" THEN principal ELSE data[f]])]

\* createDeployment: [store, threw, message, row]; row is meaningful only
\* when threw is FALSE
CreateDeployment(st, id, at, principal, data, env) ==
    LET row == NewRow(id, at, [f \in DOMAIN data \cup {"userId"} |->
                                 IF f = "userId" THEN principal ELSE data[f]])
    IN
    IF principal = NoUser
    THEN [store |-> st, threw |-> TRUE, message |-> "Unauthorized", row |-> row]
    ELSE IF env = "dbFail"
    THEN [store |-> st, threw |-> TRUE,
          message |-> "Failed to create deployment", row |-> row]
    ELSE IF env = "revalidateFail"
    THEN [store |-> st \cup {row}, threw |-> TRUE,
          message |-> "Failed to create deployment", row |-> row]
    ELSE [store |-> st \cup {row}, threw |-> FALSE, message |-> Null, row |-> row]

\* updateDeployment: [store, threw, message, rows]; rows = {} is the null
\* it returns when no row matched
UpdateDeployment(st, principal, id, patch, env) ==
    LET hit == {r \in st : MatchesIdAndOwner(r, id, principal)}
        new == {ApplyPatch(r, patch) : r \in hit}
    IN
    IF principal = NoUser
    THEN [store |-> st, threw |-> TRUE, message |-> "Unauthorized", rows |-> {}]
    ELSE IF env = "dbFail"
    THEN [store |-> st, threw |-> TRUE,
          message |-> "Failed to update deployment", rows |-> {}]
    ELSE IF env = "revalidateFail" /\ hit # {}
    THEN [store |-> (st \ hit) \cup new, threw |-> TRUE,
          message |-> "Failed to update deployment", rows |-> {}]
    ELSE [store |-> (st \ hit) \cup new, threw |-> FALSE, message |-> Null,
          rows |-> new]

\* deleteDeployment's return value once the DELETE has run
DeleteReturnValue(removed) == TRUE

\* deleteDeployment: [store, threw, message, value]
DeleteDeploymentResult(st, principal, id, env) ==
    LET hit == {r \in st : MatchesIdAndOwner(r, id, principal)} IN
    IF principal = NoUser
    THEN [store |-> st, threw |-> TRUE, message |-> "Unauthorized", value |-> FALSE]
    ELSE IF env = "dbFail"
    THEN [store |-> st, threw |-> TRUE,
          message |-> "Failed to delete deployment", value |-> FALSE]
    ELSE IF env = "revalidateFail"
    THEN [store |-> st \ hit, threw |-> TRUE,
          message |-> "Failed to delete deployment", value |-> FALSE]
    ELSE [store |-> st \ hit, threw |-> FALSE, message |-> Null,
          value |-> DeleteReturnValue(hit # {})]

\* the rows getUserDeployments selects
SelectByOwner(st, principal) == {r \in st : OwnedBy(r, principal)}

\* a catch branch that never reads the thrown error's message
FailurePatchUnknown(thrown) ==
    [status |-> "failed", error |-> "An unknown error occurred"]

\* the patch of the catch branch of the detached job
FailurePatch(thrown) ==
    [status |-> "failed",
     error |-> IF thrown.isError THEN thrown.message
               ELSE "An unknown error occurred"]

DemoDeployments(user) ==
    <<[userId |-> user,
       projectName |-> <<"my-shipkit-app">>,
       description |-> <<"Production deployment">>,
       githubRepoUrl |-> "https://github.com/demo/my-shipkit-app",
       githubRepoName |-> "demo/my-shipkit-app",
       vercelProjectUrl |-> "https://vercel.com/demo/my-shipkit-app",
       vercelDeploymentUrl |-> "https://my-shipkit-app.vercel.app",
       status |-> "completed"],
      [userId |-> user,
       projectName |-> <<"shipkit-staging">>,
       description |-> <<"Staging environment">>,
       githubRepoUrl |-> "https://github.com/demo/shipkit-staging",
       githubRepoName |-> "demo/shipkit-staging",
       vercelProjectUrl |-> "https://vercel.com/demo/shipkit-staging",
       vercelDeploymentUrl |-> "https://shipkit-staging.vercel.app",
       status |-> "completed"],
      [userId |-> user,
       projectName |-> <<"shipkit-dev">>,
       description |-> <<"Development environment">>,
       status |-> "failed",
       error |-> "Build failed: Module not found"]>>

\* a seeder that never finds existing rows
HasDeploymentsNever(st, user) == FALSE

\* the guard of the seeder: the owner already has a row
HasDeployments(st, user) == \E r \in st : OwnedBy(r, user)

\* a validation result that is never acted on
IsRejectedNever(validation) == FALSE

\* initiateDeployment returns early on a failed validation
IsRejected(validation) == ~validation.isValid

\* ---------------------------------------------------------------- actions
InitiateDeployment(principal, raw, env) ==
    LET validation == ValidateProjectName(raw)
        sanitizedProjectName == Trim(raw)
        description == <<"Deployment of ">> \o sanitizedProjectName
        c == CreateDeployment(store, nextId, clock + 1, principal,
                 [projectName |-> sanitizedProjectName,
                  description |-> description,
                  status |-> "deploying"], env)
    IN
    /\ IF IsRejected(validation)
       THEN /\ last' = Returned("initiate", principal, raw, env, FALSE,
                          [success |-> FALSE, error |-> validation.error])
            /\ UNCHANGED <<store, nextId, clock, jobs>>
       ELSE /\ store' = c.store
            /\ nextId' = IF c.store # store THEN nextId + 1 ELSE nextId
            /\ clock' = IF c.store # store THEN clock + 1 ELSE clock
            /\ jobs' = IF c.threw THEN jobs
                       ELSE jobs \cup {[id |-> c.row.id, user |-> principal]}
            /\ last' = Returned("initiate", principal, raw, env, FALSE,
                          [success |-> ~c.threw, error |-> c.message])

GetUserDeployments(principal, env) ==
    /\ \/ /\ principal = NoUser \/ env = "dbFail"
          /\ last' = Returned("list", principal, Null, env, TRUE, <<>>)
       \/ /\ principal # NoUser /\ env = "ok"
          /\ \E rows \in Orderings(SelectByOwner(store, principal)) :
                last' = Returned("list", principal, Null, env, FALSE, rows)
    /\ UNCHANGED <<store, nextId, clock, jobs>>

OwnerUpdateDeployment(principal, id, patch, env) ==
    LET u == UpdateDeployment(store, principal, id, patch, env) IN
    /\ store' = u.store
    /\ last' = Returned("update", principal, [id |-> id, patch |-> patch], env,
                        u.threw, u.rows)
    /\ UNCHANGED <<nextId, clock, jobs>>

DeleteDeployment(principal, id, env) ==
    LET d == DeleteDeploymentResult(store, principal, id, env) IN
    /\ store' = d.store
    /\ last' = Returned("delete", principal, id, env, d.threw, d.value)
    /\ UNCHANGED <<nextId, clock, jobs>>

InitializeDemoDeployments(principal, env) ==
    LET demo == DemoDeployments(principal)
        seeds == principal # NoUser /\ env = "ok"
                 /\ ~HasDeployments(store, principal)
    IN
    /\ store' = IF seeds
                THEN store \cup {NewRow(nextId + i - 1, clock + 1, demo[i]) :
                                    i \in 1..Len(demo)}
                ELSE store
    /\ nextId' = IF seeds THEN nextId + Len(demo) ELSE nextId
    /\ clock' = IF seeds THEN clock + 1 ELSE clock
    /\ last' = Returned("seed", principal, Null, env, principal = NoUser, Null)
    /\ UNCHANGED jobs

\* deployPrivateRepository throws: the catch branch of the detached job
JobThrows(j, thrown, session, env) ==
    LET u == UpdateDeployment(store, session, j.id, FailurePatch(thrown), env) IN
    /\ j \in jobs
    /\ jobs' = jobs \ {j}
    /\ store' = u.store
    /\ last' = Returned("jobThrow", session, [id |-> j.id, thrown |-> thrown],
                        env, FALSE, u.rows)
    /\ UNCHANGED <<nextId, clock>>

\* deployPrivateRepository succeeds and reconciles the row it was given
JobSucceeds(j, locators, session, env) ==
    LET patch == [f \in DOMAIN locators \cup {"status"} |->
                     IF f = "status" THEN "completed" ELSE locators[f]]
        u == UpdateDeployment(store, session, j.id, patch, env)
    IN
    /\ j \in jobs
    /\ jobs' = jobs \ {j}
    /\ store' = u.store
    /\ last' = Returned("jobSuccess", session,
                        [id |-> j.id, locators |-> locators], env, FALSE, u.rows)
    /\ UNCHANGED <<nextId, clock>>

\* deployPrivateRepository returns {success: false, error} and reconciles
JobReturnsFailure(j, message, session, env) ==
    LET u == UpdateDeployment(store, session, j.id,
                 [status |-> "failed", error |-> message], env)
    IN
    /\ j \in jobs
    /\ jobs' = jobs \ {j}
    /\ store' = u.store
    /\ last' = Returned("jobFailure", session,
                        [id |-> j.id, message |-> message], env, FALSE, u.rows)
    /\ UNCHANGED <<nextId, clock>>

Tick == steps < MaxSteps /\ steps' = steps + 1

\* ids a caller can name: those generated so far, and one that never was
KnownIds == 1..nextId

Initiate == \E c \in Contexts(WriteEnvs), raw \in RawNames :
                Tick /\ InitiateDeployment(c[1], raw, c[2])
List == \E c \in Contexts(ReadEnvs) : Tick /\ GetUserDeployments(c[1], c[2])
Update == \E c \in Contexts(WriteEnvs), id \in KnownIds, patch \in Patches :
                Tick /\ OwnerUpdateDeployment(c[1], id, patch, c[2])
Delete == \E c \in Contexts(WriteEnvs), id \in KnownIds :
                Tick /\ DeleteDeployment(c[1], id, c[2])
Seed == \E c \in Contexts(ReadEnvs) : Tick /\ InitializeDemoDeployments(c[1], c[2])
JobContexts(j) == {c \in Contexts(WriteEnvs) : c[1] \in {j.user, NoUser}}
JobThrow == \E j \in jobs : \E t \in Thrown, c \in JobContexts(j) :
                Tick /\ JobThrows(j, t, c[1], c[2])
JobSuccess == \E j \in jobs : \E l \in Locators, c \in JobContexts(j) :
                Tick /\ JobSucceeds(j, l, c[1], c[2])
JobFailure == \E j \in jobs : \E m \in FailureMessages, c \in JobContexts(j) :
                Tick /\ JobReturnsFailure(j, m, c[1], c[2])

Next ==
    \/ Initiate
    \/ List
    \/ Update
    \/ Delete
    \/ Seed
    \/ JobThrow
    \/ JobSuccess
    \/ JobFailure

Spec == Init /\ [][Next]_vars

\* ================================================================ claims
\* C1 (as stated): across every step, a row's status changes only from
\* deploying to completed or from deploying to failed, and is always one of
\* deploying, completed, failed.
C1_StatusOnlyAdvances ==
    [][\A r \in store : \A r2 \in store' :
          r2.id = r.id =>
             /\ r2.status \in Statuses
             /\ \/ r2.status = r.status
                \/ r.status = "deploying" /\ r2.status \in {"completed", "failed"}]_vars

\* C2 (as stated): in every reachable state every stored row has a non-empty
\* error if and only if its status is failed.
C2_ErrorIffFailed ==
    \A r \in store : (r.error \notin {Null, ""}) <=> (r.status = "failed")

\* C3 (as stated): for every valid project name initiateDeployment returns
\* success=true.
C3_ValidNameAlwaysSucceeds ==
    (last.op = "initiate" /\ ValidateProjectName(last.arg).isValid)
        => last.result.success

\* C3 (amended): for every valid project name, when the caller is
\* authenticated and the insert and its revalidation succeed,
\* initiateDeployment returns success=true and the call adds exactly one row,
\* with a fresh id, status deploying, the caller as owner and the trimmed
\* name; every later getUserDeployments of an owner returns each row of
\* that owner still stored, whatever its job has done; and a row leaves the
\* store only through deleteDeployment.
C3_InitiateCreatesVisibleRecord ==
    [][/\ (/\ last'.op = "initiate"
           /\ ValidateProjectName(last'.arg).isValid
           /\ last'.principal # NoUser
           /\ last'.env = "ok")
          => /\ last'.result.success
             /\ \E r \in store' :
                   /\ store' = store \cup {r}
                   /\ r.id \notin Ids(store)
                   /\ r.status = "deploying"
                   /\ r.userId = last'.principal
                   /\ r.projectName = Trim(last'.arg)
       /\ (last'.op = "list" /\ ~last'.threw)
          => \A r \in store' :
                r.userId = last'.principal => r \in Range(last'.result)
       /\ \A r \in store : r.id \notin Ids(store') => last'.op = "delete"]_vars

\* C3 witness: a listing returns a deploying row whose job is still running.
C3_ListedWhileJobRuns ==
    /\ last.op = "list"
    /\ ~last.threw
    /\ \E r \in Range(last.result) :
          r.status = "deploying" /\ [id |-> r.id, user |-> r.userId] \in jobs

C6_DeleteReportsRemoval ==
    [][(last'.op = "delete" /\ ~last'.threw)
          => /\ last'.result = (store' # store)
             /\ (~\E r \in store : r.id = last'.arg /\ r.userId = last'.principal)
                   => store' = store]_vars

\* C7 (as stated): when the initial insert fails (no session, store failure,
\* any error raised inside createDeployment) initiateDeployment returns
\* success=false, schedules no job and leaves no row of that call stored.
C7_FailedInsertLeavesNothing ==
    [][(/\ last'.op = "initiate"
        /\ ValidateProjectName(last'.arg).isValid
        /\ (last'.principal = NoUser \/ last'.env # "ok"))
          => /\ ~last'.result.success
             /\ jobs' = jobs
             /\ store' = store]_vars

\* C8: for every invalid project name (empty, too long, disallowed
\* characters) initiateDeployment returns success=false with the validator's
\* error, creates no row, schedules no job and leaves the store unchanged.
C8_InvalidNameRejected ==
    [][(last'.op = "initiate" /\ ~ValidateProjectName(last'.arg).isValid)
          => /\ ~last'.result.success
             /\ last'.result.error = ValidateProjectName(last'.arg).error
             /\ store' = store
             /\ jobs' = jobs
             /\ nextId' = nextId]_vars

\* C8 witness: a too long name was rejected by an authenticated caller
\* whose store already holds rows.
C8_TooLongRejected ==
    /\ last.op = "initiate"
    /\ last.arg = <<"a", "a">>
    /\ last.principal # NoUser
    /\ last.env = "ok"
    /\ ~last.result.success
    /\ store # {}

\* C9: getUserDeployments never returns a row of another owner, and an
\* updateDeployment or deleteDeployment changes and removes no row of
\* another owner; update on a foreign id returns null.
C9_TenantIsolation ==
    [][/\ (last'.op = "list" /\ ~last'.threw)
          => \A r \in Range(last'.result) : r.userId = last'.principal
       /\ last'.op \in {"update", "delete"}
          => \A r \in store : r.userId # last'.principal => r \in store'
       /\ (/\ last'.op = "update"
           /\ ~last'.threw
           /\ \E r \in store : r.id = last'.arg.id /\ r.userId # last'.principal)
          => last'.result = {}]_vars

\* C9 witness: two owners hold rows and one of them has called
\* updateDeployment, with a working store, on the id of the other's row.
C9_ForeignUpdateAttempted ==
    /\ last.op = "update"
    /\ last.principal # NoUser
    /\ last.env = "ok"
    /\ \E r \in store : r.id = last.arg.id /\ r.userId # last.principal
    /\ \E r \in store : r.userId = last.principal

\* C10 (as stated): initializeDemoDeployments called by an owner with rows
\* changes nothing; called by an owner with no rows it inserts exactly 3
\* rows, two completed and one failed.
C10_SeedAlwaysInserts ==
    [][(last'.op = "seed" /\ last'.principal # NoUser)
          => IF \E r \in store : r.userId = last'.principal
             THEN store' = store
             ELSE /\ store \subseteq store'
                  /\ Cardinality(store' \ store) = 3]_vars

\* C10 (amended): initializeDemoDeployments called by an owner with rows
\* changes nothing; called by an owner with no rows it inserts, when the
\* store's select and insert succeed, exactly 3 rows of that owner with
\* fresh ids, two completed and one failed, and none when the store fails;
\* a second call therefore inserts nothing.
C10_SeedIfEmpty ==
    [][(last'.op = "seed" /\ last'.principal # NoUser)
          => IF (\E r \in store : r.userId = last'.principal) \/ last'.env # "ok"
             THEN store' = store
             ELSE LET new == store' \ store IN
                  /\ store \subseteq store'
                  /\ Cardinality(new) = 3
                  /\ Cardinality(Ids(new)) = 3
                  /\ Ids(new) \cap Ids(store) = {}
                  /\ \A r \in new : r.userId = last'.principal
                  /\ Cardinality({r \in new : r.status = "completed"}) = 2
                  /\ Cardinality({r \in new : r.status = "failed"}) = 1]_vars

\* C10 witness: the seeder has returned for the second time in a run of two
\* calls, and the owner holds the three rows of the first call and no more.
C10_SecondSeedIsNoOp ==
    /\ last.op = "seed"
    /\ last.principal # NoUser
    /\ last.env = "ok"
    /\ Cardinality({r \in store : r.userId = last.principal}) = 3
    /\ steps = 2
    /\ nextId = 4
====
